---------------------------- MODULE Spec2Model ----------------------------
(***************************************************************************)
(* Model of the book-management backend (src/app): the users, books and    *)
(* reviews tables of the relational store, and the HTTP handlers of        *)
(* auth.py and main.py.  Every handler is a coroutine: it is cut into one  *)
(* action per stretch of code between two suspension points that touch the *)
(* store or the inference pool, so that requests of several clients        *)
(* interleave the way the event loop interleaves them.  The store is the   *)
(* schema models.py declares: serial primary keys, a unique username, a    *)
(* foreign key reviews.book_id -> books.id with ON DELETE CASCADE, and     *)
(* statements that see every committed row.  A write and its commit are    *)
(* one action (the write is invisible before the commit); the re-read that *)
(* follows a commit (db.refresh, get_book) is an action of its own.        *)
(***************************************************************************)
EXTENDS Integers, Sequences, FiniteSets, TLC

\* ------------------------------------------------------------------ values

\* Clients whose requests are in flight together.
Clients == {"c1", "c2"}

\* The SQL NULL / Python None of a nullable column or an optional field.
NULL == "NULL"

Usernames == {"alice", "bob"}
Passwords == {"secret", "other"}
\* bcrypt draws a fresh salt for every hash.
Salts == {"s1", "s2"}

VARIABLES
    users,        \* users table: id -> [username, hashed_password]
    nextUserId,   \* the serial of users.id
    books,        \* books table: id -> [title, author, genre, year_published, summary]
    nextBookId,   \* the serial of books.id
    reviews,      \* reviews table: id -> [book_id, user_id, review_text, rating]
    nextReviewId, \* the serial of reviews.id
    req,          \* per client: the request in flight (handler locals) or its response
    modified,     \* history: ids of books updated or deleted since they were created
    pool          \* the executor: [queue of submitted work, work being run]

vars == <<users, nextUserId, books, nextBookId, reviews, nextReviewId, req, modified,
          pool>>

storeVars == <<users, nextUserId, books, nextBookId, reviews, nextReviewId>>

\* A client with no request in flight and no response pending.
Idle == [op |-> "idle", pc |-> "idle"]

\* ------------------------------------------------------------------ executor

\* ThreadPoolExecutor() has min(32, cpu_count + 4) worker threads: five on
\* the smallest machine, and more than the clients modelled on every machine.
MinWorkers == 5

\* The worker threads of an executor that clients can saturate.
MaxWorkers == 1

\* Mutant of Submit: work submitted while every worker is busy is dropped.
SubmitOrDrop(c) ==
    IF Cardinality(pool.running) >= pool.workers
    THEN pool
    ELSE [pool EXCEPT !.queue = Append(@, c)]

\* loop.run_in_executor(executor, generate, prompt_): the work item of the
\* request of c joins the executor's queue, whatever the queue holds.
Submit(c) == [pool EXCEPT !.queue = Append(@, c)]

\* The call of generate for c is on a worker thread.
Running(c) == c \in pool.running

\* The worker of c is free again once generate returned or raised.
Release(c) == [pool EXCEPT !.running = @ \ {c}]

\* A free worker takes the oldest work item of the queue and calls generate.
PoolRun ==
    /\ pool.queue # <<>>
    /\ Cardinality(pool.running) < pool.workers
    /\ pool' = [pool EXCEPT !.queue = Tail(@),
                            !.running = @ \cup {Head(pool.queue)}]
    /\ UNCHANGED <<storeVars, req, modified>>

\* The future run_in_executor gives the handler: not set while the work is
\* queued or running, then the value generate returned or its exception.
Pending == [set |-> FALSE]
Returned(text) == [set |-> TRUE, raised |-> FALSE, text |-> text]
Raised == [set |-> TRUE, raised |-> TRUE]

FutureReturned(c) == req[c].future.set /\ ~req[c].future.raised
FutureRaised(c) == req[c].future.set /\ req[c].future.raised

\* On the worker thread, generate returns or raises for the request of c
\* that awaits at `pc`: the future is set and the worker is free at once.
\* The handler is resumed later, by the event loop.
GenerateEnds(c, pc, outcomes) ==
    /\ Running(c)
    /\ req[c].pc = pc
    /\ \E outcome \in outcomes : req' = [req EXCEPT ![c].future = outcome]
    /\ pool' = Release(c)
    /\ UNCHANGED <<storeVars, modified>>

\* ------------------------------------------------------------------ passwords

\* pwd_context.hash: a salted digest; the salt is stored in the hash.
hash_password(password, salt) == [salt |-> salt, digest |-> <<salt, password>>]

\* Mutant of verify_password: any password is accepted.
AcceptAnyPassword(plain, hashed) == TRUE

\* pwd_context.verify: re-hash the plain text with the stored salt.
verify_password(plain, hashed) == hashed.digest = <<hashed.salt, plain>>

\* ------------------------------------------------------------------ users

\* select(User).where(User.username == username) ... scalar_one_or_none()
UserByName(username) ==
    LET ids == {i \in DOMAIN users : users[i].username = username}
    IN  IF ids = {} THEN 0 ELSE CHOOSE i \in ids : TRUE

\* Mutant of UniqueViolation: a users table without the unique index.
NoUniqueIndex(username) == FALSE

\* unique=True on users.username: the store rejects a second row with the name.
UniqueViolation(username) == \E i \in DOMAIN users : users[i].username = username

\* The except clause of register: whatever was raised inside the try block,
\* the HTTPException(400) of the duplicate check included, leaves as a 500.
RegisterErrorStatus(raised) == 500

\* register, up to the first commit: the existence check.
RegisterCheckFrom(c, usernames, passwords) ==
    /\ req[c].pc = "idle"
    /\ \E u \in usernames, p \in passwords :
         LET existing_user == UserByName(u)
             r == [op |-> "register", username |-> u, password |-> p,
                   existing_user |-> existing_user, new_user |-> 0]
         IN  IF existing_user # 0
             THEN req' = [req EXCEPT ![c] =
                            r @@ [pc |-> "done", status |-> RegisterErrorStatus(400),
                                  out |-> [id |-> 0, username |-> NULL]]]
             ELSE req' = [req EXCEPT ![c] =
                            r @@ [pc |-> "reg_commit", status |-> 0,
                                  out |-> [id |-> 0, username |-> NULL]]]
    /\ UNCHANGED <<storeVars, modified, pool>>

RegisterCheck(c) == RegisterCheckFrom(c, Usernames, Passwords)

\* Whether a refused INSERT has used up a value of the table's id sequence
\* depends on the store behind DATABASE_URL: 1 where it has, 0 where not.
RefusedInsertUses == {0, 1}

\* register, db.add + commit: the insert, refused by the unique index when
\* the name was committed meanwhile (IntegrityError, caught as Exception).
RegisterCommitWith(c, salts) ==
    /\ req[c].op = "register"
    /\ req[c].pc = "reg_commit"
    /\ IF UniqueViolation(req[c].username)
       THEN /\ req' = [req EXCEPT ![c].pc = "done",
                                  ![c].status = RegisterErrorStatus(500)]
            /\ \E used \in RefusedInsertUses : nextUserId' = nextUserId + used
            /\ UNCHANGED users
       ELSE \E salt \in salts :
            /\ users' = users @@ (nextUserId :>
                          [username |-> req[c].username,
                           hashed_password |-> hash_password(req[c].password, salt)])
            /\ nextUserId' = nextUserId + 1
            /\ req' = [req EXCEPT ![c].pc = "reg_refresh",
                                  ![c].new_user = nextUserId]
    /\ UNCHANGED <<books, nextBookId, reviews, nextReviewId, modified, pool>>

\* register, db.refresh(new_user) and the response: the row is read again by
\* its id and returned through response_model=UserOut.
RegisterRefresh(c) ==
    /\ req[c].op = "register"
    /\ req[c].pc = "reg_refresh"
    /\ LET new_user == req[c].new_user IN
       IF new_user \in DOMAIN users
       THEN req' = [req EXCEPT ![c].pc = "done", ![c].status = 200,
                               ![c].out = [id |-> new_user,
                                           username |-> users[new_user].username]]
       ELSE req' = [req EXCEPT ![c].pc = "done",
                               ![c].status = RegisterErrorStatus(500)]
    /\ UNCHANGED <<storeVars, modified, pool>>

RegisterCommit(c) == RegisterCommitWith(c, Salts)

\* The test of get_current_user on the looked-up user: `not user or not
\* verify_password(credentials.password, user.hashed_password)`.
Rejected(user, password) ==
    user = 0 \/ ~verify_password(password, users[user].hashed_password)

\* get_current_user: one select by username, then the password check; 401
\* with the Basic challenge, or the user.
Authenticate(c) ==
    /\ req[c].pc = "idle"
    /\ \E u \in Usernames, p \in Passwords :
         LET user == UserByName(u) IN
         req' = [req EXCEPT ![c] =
                   [op |-> "authenticate", username |-> u, password |-> p,
                    pc |-> "done",
                    status |-> IF Rejected(user, p) THEN 401 ELSE 200,
                    challenge |-> IF Rejected(user, p) THEN "Basic" ELSE NULL,
                    out |-> IF Rejected(user, p)
                            THEN [id |-> 0, username |-> NULL]
                            ELSE [id |-> user, username |-> users[user].username]]]
    /\ UNCHANGED <<storeVars, modified, pool>>

\* The response is delivered; the client may issue its next request.
Return(c) ==
    /\ req[c].pc = "done"
    /\ req' = [req EXCEPT ![c] = Idle]
    /\ UNCHANGED <<storeVars, modified, pool>>

\* ------------------------------------------------------------------ books

\* Bound: how many books are ever created (the highest books.id handed out).
MaxBookId == 2

\* Ids a request path can name: every id the serial can hand out, stored,
\* not yet stored or deleted.
PathIds == 1 .. MaxBookId

Titles == {"Dune"}
Authors == {"Herbert"}
Genres == {"SF"}
Years == {1965}
\* A summary a request body can carry.
RequestSummaries == {"mine"}
\* What the language model can answer to a prompt.
LlmOutputs == {"", "gen"}

\* BookCreate: the four fields without a default are required.
RequiredFields == {"title", "author", "genre", "year_published"}

BookFields == RequiredFields \cup {"summary"}

\* pydantic validation of a JSON body against BookCreate.
ValidBook(body) == RequiredFields \subseteq DOMAIN body

\* JSON bodies of POST /books/ and PUT /books/{id}, as the fields the client
\* set: every schema-valid body (with and without a summary), and the body
\* {"title": "X"} that sets the title alone.
RequestBookBodies ==
    [title : Titles, author : Authors, genre : Genres, year_published : Years]
    \cup [title : Titles, author : Authors, genre : Genres, year_published : Years,
          summary : RequestSummaries]
    \cup [title : {"X"}]

\* The parsed BookCreate object: unset fields take their default (summary = None).
BookObject(body) ==
    [f \in BookFields |-> IF f \in DOMAIN body THEN body[f] ELSE NULL]

\* Mutant of CopyWithSummary: a summary the request supplied is kept.
KeepRequestSummary(book, response) ==
    IF book.summary # NULL THEN book ELSE [book EXCEPT !.summary = response]

\* book.copy(update={"summary": str(response)})
CopyWithSummary(book, response) == [book EXCEPT !.summary = response]

\* response_model=schemas.BookCreate applied to a row: its five fields,
\* without its id.
BookOut(row) ==
    [title |-> row.title, author |-> row.author, genre |-> row.genre,
     year_published |-> row.year_published, summary |-> row.summary]

\* crud.get_book: the row with this id, or None.
BookExists(book_id) == book_id \in DOMAIN books

\* Requests of create_book that have not yet inserted their row.
PendingCreates == {c \in Clients : req[c].op = "createBook" /\ req[c].pc = "infer"}

NoBody == [status |-> 0]

\* create_book up to run_in_executor: the body is validated and the prompt is
\* handed to the pool.
CreateBookSubmitFrom(c, bodies) ==
    /\ req[c].pc = "idle"
    /\ nextBookId + Cardinality(PendingCreates) <= MaxBookId
    /\ \E body \in bodies :
         /\ req' = [req EXCEPT ![c] =
                      [op |-> "createBook", body |-> body, future |-> Pending,
                       response |-> NULL,
                       detail |-> NULL, db_book |-> 0, out |-> NoBody,
                       pc |-> IF ValidBook(body) THEN "infer" ELSE "done",
                       status |-> IF ValidBook(body) THEN 0 ELSE 422]]
         /\ pool' = IF ValidBook(body) THEN Submit(c) ELSE pool
    /\ UNCHANGED <<storeVars, modified>>

CreateBookSubmit(c) == CreateBookSubmitFrom(c, RequestBookBodies)

\* crud.insert_book_data, db.add and commit: the row gets the next id.
\* `locals` is req with the handler's locals as they are at the call.
InsertBookData(c, book, locals) ==
    /\ books' = books @@ (nextBookId :> book)
    /\ nextBookId' = nextBookId + 1
    /\ req' = [locals EXCEPT ![c].pc = "book_refresh", ![c].db_book = nextBookId]

\* crud.insert_book_data, db.refresh: the row is read again by its id, and
\* create_book returns it; a row deleted meanwhile raises, and the except
\* clause of create_book answers 500.
RefreshBook(c) ==
    /\ req[c].op = "createBook"
    /\ req[c].pc = "book_refresh"
    /\ IF BookExists(req[c].db_book)
       THEN req' = [req EXCEPT ![c].pc = "done", ![c].status = 200,
                               ![c].out = BookOut(books[req[c].db_book])]
       ELSE req' = [req EXCEPT ![c].pc = "done", ![c].status = 500,
                               ![c].detail = "could not refresh"]
    /\ UNCHANGED <<storeVars, modified, pool>>

\* What generate may do for the prompt of create_book.
BookOutcomes == {Returned(text) : text \in LlmOutputs} \cup {Raised}

\* create_book resumed with the text generate returned: the summary is the
\* model's text, and the row is inserted.
CreateBookFinish(c) ==
    /\ req[c].op = "createBook"
    /\ req[c].pc = "infer"
    /\ FutureReturned(c)
    /\ LET response == req[c].future.text IN
       InsertBookData(c, CopyWithSummary(BookObject(req[c].body), response),
                      [req EXCEPT ![c].response = response])
    /\ UNCHANGED <<users, nextUserId, reviews, nextReviewId, modified, pool>>

\* Mutant of CreateBookFail: on a failed inference the book is stored without
\* a summary.
CreateBookFallback(c) ==
    /\ req[c].op = "createBook"
    /\ req[c].pc = "infer"
    /\ FutureRaised(c)
    /\ InsertBookData(c, BookObject(req[c].body),
                      [req EXCEPT ![c].detail = "inference failed"])
    /\ UNCHANGED <<users, nextUserId, reviews, nextReviewId, modified, pool>>

\* create_book resumed with the exception of generate: the except clause
\* answers 500 with the text of the exception.
CreateBookFail(c) ==
    /\ req[c].op = "createBook"
    /\ req[c].pc = "infer"
    /\ FutureRaised(c)
    /\ req' = [req EXCEPT ![c].pc = "done", ![c].status = 500,
                          ![c].detail = "inference failed"]
    /\ UNCHANGED <<storeVars, modified, pool>>

\* The query parameters read_books is called with: the defaults, and a
\* window of one row after the first.
Windows == {[skip |-> 0, limit |-> 100], [skip |-> 1, limit |-> 1]}

\* Mutant of get_books: the window is applied in id order, as
\* select(Book).offset(skip).limit(limit) would.
get_books_window(skip, limit) ==
    { <<i, BookOut(books[i])>> :
        i \in {j \in DOMAIN books :
                 LET before == Cardinality({k \in DOMAIN books : k < j})
                 IN  before >= skip /\ before < skip + limit} }

\* crud.get_books: select(models.Book) with no offset and no limit; the
\* rows, as (id, fields).
get_books(skip, limit) == { <<i, BookOut(books[i])>> : i \in DOMAIN books }

\* read_books: one select, and the rows are the response.
ReadBooksFrom(c, windows) ==
    /\ req[c].pc = "idle"
    /\ \E w \in windows :
         req' = [req EXCEPT ![c] =
                   [op |-> "listBooks", skip |-> w.skip, limit |-> w.limit,
                    pc |-> "done", status |-> 200,
                    rows |-> get_books(w.skip, w.limit)]]
    /\ UNCHANGED <<storeVars, modified, pool>>

ReadBooks(c) == ReadBooksFrom(c, Windows)

\* Mutant of ReadBookDict: the dict leaves the summary out.
ReadBookDictNoSummary(db_book) ==
    [title |-> db_book.title, author |-> db_book.author, genre |-> db_book.genre,
     year_published |-> db_book.year_published, summary |-> NULL]

\* The dict read_book returns, field by field from the row.
ReadBookDict(db_book) ==
    [title |-> db_book.title, author |-> db_book.author, genre |-> db_book.genre,
     year_published |-> db_book.year_published, summary |-> db_book.summary]

\* read_book: one select, then the dict of the row or 404.
ReadBook(c) ==
    /\ req[c].pc = "idle"
    /\ \E book_id \in PathIds :
         req' = [req EXCEPT ![c] =
                   [op |-> "getBook", book_id |-> book_id, pc |-> "done",
                    status |-> IF BookExists(book_id) THEN 200 ELSE 404,
                    out |-> IF BookExists(book_id)
                            THEN BookOut(ReadBookDict(books[book_id]))
                            ELSE NoBody]]
    /\ UNCHANGED <<storeVars, modified, pool>>

\* update_book up to crud.update_book_data: validation, then the existence check.
UpdateBookCheckFrom(c, bodies) ==
    /\ req[c].pc = "idle"
    /\ \E book_id \in PathIds, body \in bodies :
         req' = [req EXCEPT ![c] =
                   [op |-> "updateBook", book_id |-> book_id, body |-> body,
                    db_book |-> IF BookExists(book_id) THEN books[book_id] ELSE NULL,
                    out |-> NoBody,
                    pc |-> IF ValidBook(body) /\ BookExists(book_id)
                           THEN "upd_exec" ELSE "done",
                    status |-> IF ~ValidBook(body) THEN 422
                               ELSE IF ~BookExists(book_id) THEN 404 ELSE 0]]
    /\ UNCHANGED <<storeVars, modified, pool>>

UpdateBookCheck(c) == UpdateBookCheckFrom(c, RequestBookBodies)

\* .values(**book.dict(exclude_unset=True)): the columns the body set.
UpdateValues(row, body) ==
    [f \in BookFields |-> IF f \in DOMAIN body THEN body[f] ELSE row[f]]

\* crud.update_book_data, the UPDATE ... WHERE id: 404 without a commit when
\* no row matched, otherwise commit.
UpdateBookData(c) ==
    /\ req[c].op = "updateBook"
    /\ req[c].pc = "upd_exec"
    /\ LET book_id == req[c].book_id IN
       IF ~BookExists(book_id)
       THEN /\ req' = [req EXCEPT ![c].pc = "done", ![c].status = 404]
            /\ UNCHANGED <<books, modified>>
       ELSE /\ books' = [books EXCEPT ![book_id] = UpdateValues(@, req[c].body)]
            /\ modified' = modified \cup {book_id}
            /\ req' = [req EXCEPT ![c].pc = "upd_reread"]
    /\ UNCHANGED <<users, nextUserId, nextBookId, reviews, nextReviewId, pool>>

\* The Book object of the request's session after the UPDATE: loaded by the
\* get_book of update_book, it has the attributes it was loaded with, and
\* those the UPDATE set (synchronize_session="fetch").  The session does not
\* expire it on commit (expire_on_commit=False), and a later select of the
\* same id does not reload it.
SessionBook(db_book, body) == UpdateValues(db_book, body)

\* crud.update_book_data, its closing get_book, returned by update_book
\* through response_model=schemas.BookCreate: the select gives the session's
\* object when the row is stored, and None when it was deleted meanwhile,
\* which the response model rejects (the server answers 500).
UpdateBookReread(c) ==
    /\ req[c].op = "updateBook"
    /\ req[c].pc = "upd_reread"
    /\ IF BookExists(req[c].book_id)
       THEN req' = [req EXCEPT ![c].pc = "done", ![c].status = 200,
                               ![c].out = BookOut(SessionBook(req[c].db_book,
                                                              req[c].body))]
       ELSE req' = [req EXCEPT ![c].pc = "done", ![c].status = 500]
    /\ UNCHANGED <<storeVars, modified, pool>>

\* delete_book up to crud.delete_book_data: the existence check.
DeleteBookCheck(c) ==
    /\ req[c].pc = "idle"
    /\ \E book_id \in PathIds :
         req' = [req EXCEPT ![c] =
                   [op |-> "deleteBook", book_id |-> book_id,
                    pc |-> IF BookExists(book_id) THEN "del_select" ELSE "done",
                    status |-> IF BookExists(book_id) THEN 0 ELSE 404]]
    /\ UNCHANGED <<storeVars, modified, pool>>

\* crud.delete_book_data, its select: 404 when the row is gone.
DeleteBookSelect(c) ==
    /\ req[c].op = "deleteBook"
    /\ req[c].pc = "del_select"
    /\ IF BookExists(req[c].book_id)
       THEN req' = [req EXCEPT ![c].pc = "del_exec"]
       ELSE req' = [req EXCEPT ![c].pc = "done", ![c].status = 404]
    /\ UNCHANGED <<storeVars, modified, pool>>

\* Mutant of CascadeReviews: a foreign key without ON DELETE CASCADE that the
\* store does not enforce on delete.
NoCascade(book_id) == reviews

\* ondelete="CASCADE" of reviews.book_id: the reviews that survive the delete
\* of a book.
CascadeReviews(book_id) ==
    [i \in {j \in DOMAIN reviews : reviews[j].book_id # book_id} |-> reviews[i]]

\* Mutant of DeleteBookRows: the delete matches no row.
DeleteNoRows(book_id) == books

\* DELETE FROM books WHERE id = book_id: the books that remain.
DeleteBookRows(book_id) ==
    [i \in DOMAIN books \ {book_id} |-> books[i]]

\* crud.delete_book_data, its delete and commit; the handler answers 204.
DeleteBookExec(c) ==
    /\ req[c].op = "deleteBook"
    /\ req[c].pc = "del_exec"
    /\ books' = DeleteBookRows(req[c].book_id)
    /\ reviews' = CascadeReviews(req[c].book_id)
    /\ modified' = modified \cup {req[c].book_id}
    /\ req' = [req EXCEPT ![c].pc = "done", ![c].status = 204]
    /\ UNCHANGED <<users, nextUserId, nextBookId, nextReviewId, pool>>

\* ------------------------------------------------------------------ reviews

\* Bound: how many reviews are ever stored (the highest reviews.id handed out).
MaxReviewId == 2

UserIds == {1}
ReviewTexts == {"ok"}
Ratings == {5}

\* JSON bodies of POST /books/{id}/reviews that ReviewCreate accepts; book_id
\* is a field of the body, next to the id of the path.
ReviewBodies ==
    [book_id : PathIds, user_id : UserIds, review_text : ReviewTexts, rating : Ratings]

\* response_model=schemas.ReviewCreate: the four fields of the row, without its id.
ReviewOut(row) ==
    [book_id |-> row.book_id, user_id |-> row.user_id,
     review_text |-> row.review_text, rating |-> row.rating]

PendingReviews ==
    {c \in Clients : req[c].op = "createReview" /\ req[c].pc = "rev_insert"}

\* Mutant of InsertReviewData: the insert is not rolled back when the store
\* refuses it; the row stays and the server answers 500.
InsertReviewNoRollback(c) ==
    /\ req[c].op = "createReview"
    /\ req[c].pc = "rev_insert"
    /\ reviews' = reviews @@ (nextReviewId :> req[c].review)
    /\ nextReviewId' = nextReviewId + 1
    /\ IF req[c].review.book_id \notin DOMAIN books
       THEN req' = [req EXCEPT ![c].pc = "done", ![c].status = 500]
       ELSE req' = [req EXCEPT ![c].pc = "rev_refresh", ![c].db_review = nextReviewId]
    /\ UNCHANGED <<users, nextUserId, books, nextBookId, modified, pool>>

\* Mutant of CreateReviewCheck: the handler goes on to the insert without
\* looking the book of the path up.
CreateReviewNoCheck(c) ==
    /\ req[c].pc = "idle"
    /\ nextReviewId + Cardinality(PendingReviews) <= MaxReviewId
    /\ \E book_id \in PathIds, review \in ReviewBodies :
         req' = [req EXCEPT ![c] =
                   [op |-> "createReview", book_id |-> book_id, review |-> review,
                    db_review |-> 0, out |-> NoBody, pc |-> "rev_insert", status |-> 0]]
    /\ UNCHANGED <<storeVars, modified, pool>>

\* create_review_for_book up to crud.insert_review_data: the book of the path
\* must exist.
CreateReviewCheckFrom(c, bodies) ==
    /\ req[c].pc = "idle"
    /\ nextReviewId + Cardinality(PendingReviews) <= MaxReviewId
    /\ \E book_id \in PathIds, review \in bodies :
         req' = [req EXCEPT ![c] =
                   [op |-> "createReview", book_id |-> book_id, review |-> review,
                    db_review |-> 0, out |-> NoBody,
                    pc |-> IF BookExists(book_id) THEN "rev_insert" ELSE "done",
                    status |-> IF BookExists(book_id) THEN 0 ELSE 404]]
    /\ UNCHANGED <<storeVars, modified, pool>>

CreateReviewCheck(c) == CreateReviewCheckFrom(c, ReviewBodies)

\* ForeignKey("books.id") on reviews.book_id: the store refuses a review whose
\* book_id names no book.
ForeignKeyViolation(review) == review.book_id \notin DOMAIN books

\* crud.insert_review_data: Review(**jsonable_encoder(review)), add, commit.
\* An IntegrityError is not caught by the handler: the server answers 500.
InsertReviewData(c) ==
    /\ req[c].op = "createReview"
    /\ req[c].pc = "rev_insert"
    /\ IF ForeignKeyViolation(req[c].review)
       THEN /\ req' = [req EXCEPT ![c].pc = "done", ![c].status = 500]
            /\ \E used \in RefusedInsertUses : nextReviewId' = nextReviewId + used
            /\ UNCHANGED reviews
       ELSE /\ reviews' = reviews @@ (nextReviewId :> req[c].review)
            /\ nextReviewId' = nextReviewId + 1
            /\ req' = [req EXCEPT ![c].pc = "rev_refresh",
                                  ![c].db_review = nextReviewId]
    /\ UNCHANGED <<users, nextUserId, books, nextBookId, modified, pool>>

\* crud.insert_review_data, db.refresh: the row is read again by its id and
\* returned; a row deleted meanwhile (by the cascade) raises, uncaught (the
\* server answers 500).
RefreshReview(c) ==
    /\ req[c].op = "createReview"
    /\ req[c].pc = "rev_refresh"
    /\ IF req[c].db_review \in DOMAIN reviews
       THEN req' = [req EXCEPT ![c].pc = "done", ![c].status = 200,
                               ![c].out = ReviewOut(reviews[req[c].db_review])]
       ELSE req' = [req EXCEPT ![c].pc = "done", ![c].status = 500]
    /\ UNCHANGED <<storeVars, modified, pool>>

\* read_reviews_for_book (GET /books/{id}/reviews) up to crud.get_review.
ReadReviewsCheck(c) ==
    /\ req[c].pc = "idle"
    /\ \E book_id \in PathIds :
         req' = [req EXCEPT ![c] =
                   [op |-> "listReviews", book_id |-> book_id, rows |-> {},
                    db_book |-> IF BookExists(book_id) THEN book_id ELSE 0,
                    pc |-> IF BookExists(book_id) THEN "rev_query" ELSE "done",
                    status |-> IF BookExists(book_id) THEN 0 ELSE 404]]
    /\ UNCHANGED <<storeVars, modified, pool>>

\* select(Review).where(Review.book_id == book_id): the rows, as (id, fields).
ReviewsOfBook(book_id) ==
    { <<i, ReviewOut(reviews[i])>> : i \in {j \in DOMAIN reviews : reviews[j].book_id = book_id} }

\* Mutant of GetReviewStatus: an empty list is returned as it is.
GetReviewAlwaysOk(rows) == 200

\* crud.get_review: 404 when the select returns no row.
GetReviewStatus(rows) == IF rows = {} THEN 404 ELSE 200

\* crud.get_review, and the response of read_reviews_for_book.
GetReview(c) ==
    /\ req[c].op = "listReviews"
    /\ req[c].pc = "rev_query"
    /\ LET rows == ReviewsOfBook(req[c].book_id) IN
       req' = [req EXCEPT ![c].pc = "done", ![c].status = GetReviewStatus(rows),
                          ![c].rows = rows]
    /\ UNCHANGED <<storeVars, modified, pool>>

\* ------------------------------------------------------------------ specification

EmptyTable == [i \in {} |-> NULL]

Init ==
    /\ users = EmptyTable
    /\ nextUserId = 1
    /\ books = EmptyTable
    /\ nextBookId = 1
    /\ reviews = EmptyTable
    /\ nextReviewId = 1
    /\ req = [c \in Clients |-> Idle]
    /\ modified = {}
    /\ pool = [queue |-> <<>>, running |-> {}, workers |-> MinWorkers]

NextAuth ==
    \E c \in Clients :
        \/ RegisterCheck(c)
        \/ RegisterCommit(c)
        \/ RegisterRefresh(c)
        \/ Authenticate(c)
        \/ Return(c)

SpecAuth == Init /\ [][NextAuth]_vars

\* The routes of one book: POST /books and GET, PUT and DELETE of /books/{id}.
NextBooks ==
    \/ PoolRun
    \/ \E c \in Clients :
        \/ CreateBookSubmit(c)
        \/ GenerateEnds(c, "infer", BookOutcomes)
        \/ CreateBookFinish(c)
        \/ RefreshBook(c)
        \/ CreateBookFail(c)
        \/ ReadBook(c)
        \/ UpdateBookCheck(c)
        \/ UpdateBookData(c)
        \/ UpdateBookReread(c)
        \/ DeleteBookCheck(c)
        \/ DeleteBookSelect(c)
        \/ DeleteBookExec(c)
        \/ Return(c)

SpecBooks == Init /\ [][NextBooks]_vars

\* The one book body and the one model answer the review routes are run with.
ReviewedBookBodies ==
    {[title |-> "Dune", author |-> "Herbert", genre |-> "SF", year_published |-> 1965]}

ReviewedLlmOutputs == {"gen"}

ReviewedOutcomes == {Returned(text) : text \in ReviewedLlmOutputs}

\* The review routes, with the book routes that create and delete the books
\* they refer to.
NextReviews ==
    \/ PoolRun
    \/ \E c \in Clients :
        \/ CreateBookSubmitFrom(c, ReviewedBookBodies)
        \/ GenerateEnds(c, "infer", ReviewedOutcomes)
        \/ CreateBookFinish(c)
        \/ RefreshBook(c)
        \/ DeleteBookCheck(c)
        \/ DeleteBookSelect(c)
        \/ DeleteBookExec(c)
        \/ CreateReviewCheck(c)
        \/ InsertReviewData(c)
        \/ RefreshReview(c)
        \/ ReadReviewsCheck(c)
        \/ GetReview(c)
        \/ Return(c)

SpecReviews == Init /\ [][NextReviews]_vars

\* The update body the writing routes are run with: the created book with
\* another summary.
WrittenBookBodies ==
    {[title |-> "Dune", author |-> "Herbert", genre |-> "SF", year_published |-> 1965,
      summary |-> "mine"]}

\* GET /books/ for every window, with the routes that create, update and
\* delete the books it lists.
NextList ==
    \/ PoolRun
    \/ \E c \in Clients :
        \/ CreateBookSubmitFrom(c, ReviewedBookBodies)
        \/ GenerateEnds(c, "infer", ReviewedOutcomes)
        \/ CreateBookFinish(c)
        \/ RefreshBook(c)
        \/ UpdateBookCheckFrom(c, WrittenBookBodies)
        \/ UpdateBookData(c)
        \/ UpdateBookReread(c)
        \/ DeleteBookCheck(c)
        \/ DeleteBookSelect(c)
        \/ DeleteBookExec(c)
        \/ ReadBooks(c)
        \/ Return(c)

SpecList == Init /\ [][NextList]_vars

\* The review body the writing routes are run with: a review of book 1.
WrittenReviewBodies == {r \in ReviewBodies : r.book_id = 1}

\* The five routes that write: register, and POST, PUT, DELETE of /books and
\* POST of /books/{id}/reviews.
NextWrites ==
    \/ PoolRun
    \/ \E c \in Clients :
        \/ RegisterCheckFrom(c, {"alice"}, {"secret"})
        \/ RegisterCommitWith(c, {"s1"})
        \/ RegisterRefresh(c)
        \/ CreateBookSubmitFrom(c, ReviewedBookBodies)
        \/ GenerateEnds(c, "infer", ReviewedOutcomes \cup {Raised})
        \/ CreateBookFinish(c)
        \/ CreateBookFail(c)
        \/ RefreshBook(c)
        \/ UpdateBookCheckFrom(c, WrittenBookBodies)
        \/ UpdateBookData(c)
        \/ UpdateBookReread(c)
        \/ DeleteBookCheck(c)
        \/ DeleteBookSelect(c)
        \/ DeleteBookExec(c)
        \/ CreateReviewCheckFrom(c, WrittenReviewBodies)
        \/ InsertReviewData(c)
        \/ RefreshReview(c)
        \/ Return(c)

SpecWrites == Init /\ [][NextWrites]_vars

\* ------------------------------------------------------------------ inference routes

\* A text is the sequence of its words and of the white space between them.
Whitespace == {" ", "\n"}

\* White space the model may put before and after its answer.
MaxPad == 1

Pads == UNION {[1 .. n -> Whitespace] : n \in 0 .. MaxPad}

\* "Summary generation failed."
Sentinel == <<"Summary", " ", "generation", " ", "failed.">>

\* What generate may return for a summary prompt.
SummaryTexts ==
    {l \o core \o t : l \in Pads, t \in Pads,
                      core \in {<<>>, <<"gen">>, <<"gen", " ", "gen">>, Sentinel}}

RECURSIVE lstrip(_)
lstrip(s) == IF s # <<>> /\ Head(s) \in Whitespace THEN lstrip(Tail(s)) ELSE s

RECURSIVE rstrip(_)
rstrip(s) ==
    IF s # <<>> /\ s[Len(s)] \in Whitespace THEN rstrip(SubSeq(s, 1, Len(s) - 1)) ELSE s

\* str.strip(): leading and trailing white space removed.
strip(s) == rstrip(lstrip(s))

\* What generate may do for a summary prompt.
SummaryOutcomes == {Returned(text) : text \in SummaryTexts} \cup {Raised}

\* What generate may do for a recommendation prompt.
RecommendOutcomes == {Returned(<<"gen">>), Returned(<<"gen", "\n">>), Raised}

\* summarize_with_llamacpp resumed with the outcome of generate: the stripped
\* text, or the sentinel when the call raised.
summarize_with_llamacpp(outcome) ==
    IF outcome.raised THEN Sentinel ELSE strip(outcome.text)

\* generate_summary up to the await of summarize_with_llamacpp.
GenerateSummarySubmit(c) ==
    /\ req[c].pc = "idle"
    /\ req' = [req EXCEPT ![c] =
                 [op |-> "generateSummary", book_content |-> "content",
                  future |-> Pending, pc |-> "summarize"]]
    /\ pool' = Submit(c)
    /\ UNCHANGED <<storeVars, modified>>

\* generate_summary resumed: summarize_with_llamacpp returns `summary`, and
\* the handler answers.
GenerateSummaryAnswer(c) ==
    /\ req[c].op = "generateSummary"
    /\ req[c].pc = "summarize"
    /\ req[c].future.set
    /\ LET summary == summarize_with_llamacpp(req[c].future) IN
       req' = [req EXCEPT ![c] =
                 [op |-> "generateSummary", book_content |-> req[c].book_content,
                  future |-> req[c].future, pc |-> "done", summary |-> summary,
                  status |-> IF summary = Sentinel THEN 500 ELSE 200,
                  detail |-> IF summary = Sentinel
                             THEN "Failed to generate summary." ELSE NULL]]
    /\ UNCHANGED <<storeVars, modified, pool>>

\* recommend_books up to run_in_executor.
RecommendSubmit(c) ==
    /\ req[c].pc = "idle"
    /\ req' = [req EXCEPT ![c] =
                 [op |-> "recommend", prompt |-> "prompt", future |-> Pending,
                  pc |-> "recommend"]]
    /\ pool' = Submit(c)
    /\ UNCHANGED <<storeVars, modified>>

\* recommend_books resumed with the text generate returned: the text as it is.
RecommendReturn(c) ==
    /\ req[c].op = "recommend"
    /\ req[c].pc = "recommend"
    /\ FutureReturned(c)
    /\ req' = [req EXCEPT ![c] =
                 [op |-> "recommend", prompt |-> req[c].prompt, pc |-> "done",
                  status |-> 200, recommend_book |-> req[c].future.text]]
    /\ UNCHANGED <<storeVars, modified, pool>>

\* recommend_books resumed with the exception of generate: 500 with its text.
RecommendRaise(c) ==
    /\ req[c].op = "recommend"
    /\ req[c].pc = "recommend"
    /\ FutureRaised(c)
    /\ req' = [req EXCEPT ![c] =
                 [op |-> "recommend", prompt |-> req[c].prompt, pc |-> "done",
                  status |-> 500, detail |-> "inference failed"]]
    /\ UNCHANGED <<storeVars, modified, pool>>

\* The routes that only call the model.
NextInference ==
    \/ PoolRun
    \/ \E c \in Clients :
        \/ GenerateSummarySubmit(c)
        \/ GenerateEnds(c, "summarize", SummaryOutcomes)
        \/ GenerateSummaryAnswer(c)
        \/ RecommendSubmit(c)
        \/ GenerateEnds(c, "recommend", RecommendOutcomes)
        \/ RecommendReturn(c)
        \/ RecommendRaise(c)
        \/ Return(c)

SpecInference == Init /\ [][NextInference]_vars

\* ------------------------------------------------------------------ scheduling

\* The call of generate for the request of c ends on its worker thread, by a
\* return or by an exception.
ModelCallEnds(c) ==
    \/ GenerateEnds(c, "infer", {Returned("gen"), Raised})
    \/ GenerateEnds(c, "summarize", {Returned(<<"gen", "\n">>), Raised})
    \/ GenerateEnds(c, "recommend", {Returned(<<"gen">>), Raised})

\* The event loop resumes the handler of c, whose future is set.
HandlerResumes(c) ==
    \/ CreateBookFinish(c)
    \/ CreateBookFail(c)
    \/ GenerateSummaryAnswer(c)
    \/ RecommendReturn(c)
    \/ RecommendRaise(c)

\* The store answers the statement the handler of c awaits, and the handler
\* is resumed.
StoreAnswers(c) ==
    \/ RefreshBook(c)
    \/ UpdateBookData(c)
    \/ UpdateBookReread(c)
    \/ DeleteBookSelect(c)
    \/ DeleteBookExec(c)

\* A client sends a request, or takes its response.
ClientMoves(c) ==
    \/ CreateBookSubmitFrom(c, ReviewedBookBodies)
    \/ GenerateSummarySubmit(c)
    \/ RecommendSubmit(c)
    \/ ReadBook(c)
    \/ ReadBooksFrom(c, {[skip |-> 0, limit |-> 100]})
    \/ UpdateBookCheckFrom(c, WrittenBookBodies)
    \/ DeleteBookCheck(c)
    \/ Return(c)

\* The routes that submit work to the executor, next to the book routes that
\* only use the store.
NextPool ==
    \/ PoolRun
    \/ \E c \in Clients :
        \/ ClientMoves(c)
        \/ ModelCallEnds(c)
        \/ HandlerResumes(c)
        \/ StoreAnswers(c)

\* The executor has the workers of the smallest machine, or so few that the
\* clients modelled can submit more work than it has workers.
InitPool ==
    /\ users = EmptyTable
    /\ nextUserId = 1
    /\ books = EmptyTable
    /\ nextBookId = 1
    /\ reviews = EmptyTable
    /\ nextReviewId = 1
    /\ req = [c \in Clients |-> Idle]
    /\ modified = {}
    /\ \E workers \in {MaxWorkers, MinWorkers} :
         pool = [queue |-> <<>>, running |-> {}, workers |-> workers]

\* What the request of c awaits comes: the end of its model call, the
\* event loop's resumption of its handler, or the store's answer.  A request
\* awaits one of them at a time.
Proceeds(c) == ModelCallEnds(c) \/ HandlerResumes(c) \/ StoreAnswers(c)

\* A free worker takes queued work, every model call ends, the event loop
\* resumes every handler whose awaited result is there, and the store
\* answers every statement.  Clients are free to send nothing.
SpecPool ==
    /\ InitPool
    /\ [][NextPool]_vars
    /\ WF_vars(PoolRun)
    /\ \A c \in Clients : WF_vars(Proceeds(c))

\* ------------------------------------------------------------------ claims

Registered(c) == req[c].op = "register" /\ req[c].pc = "done"

\* C1: a register request whose username is already stored answers 400
\* (DuplicateIdentity).
C1_DuplicateRegisterAnswers400 ==
    \A c \in Clients :
        (Registered(c) /\ req[c].existing_user # 0) => req[c].status = 400

\* C10: no two stored users have the same username, and of two register
\* requests for the same username whose responses are pending together, at
\* most one answered 200, also when both passed the existence check before
\* either committed.
C10_UsernameUnique ==
    /\ \A i, j \in DOMAIN users : users[i].username = users[j].username => i = j
    /\ \A c, d \in Clients :
         (c # d /\ Registered(c) /\ Registered(d)
               /\ req[c].username = req[d].username)
         => ~(req[c].status = 200 /\ req[d].status = 200)

\* Two requests for one username both found no existing user; one was stored,
\* the other was refused by the store.
C10_BothPassedCheck ==
    \E c, d \in Clients :
        /\ c # d /\ Registered(c) /\ Registered(d)
        /\ req[c].username = req[d].username
        /\ req[c].existing_user = 0 /\ req[d].existing_user = 0
        /\ req[c].status = 200 /\ req[d].status = 500
        /\ Cardinality({i \in DOMAIN users : users[i].username = req[c].username}) = 1

\* C2: a createReview whose path names no stored book ends at once with 404
\* and stores nothing, whatever the body holds.
C2_ReviewOfMissingBook ==
    [][\A c \in Clients :
         (req[c].pc = "idle" /\ req'[c].op = "createReview"
                             /\ req'[c].book_id \notin DOMAIN books)
         => /\ req'[c].pc = "done"
            /\ req'[c].status = 404
            /\ reviews' = reviews
            /\ nextReviewId' = nextReviewId]_vars

\* A createReview answered 404 although the book_id of its body is stored.
C2_MissingPathStoredBody ==
    \E c \in Clients :
        /\ req[c].op = "createReview" /\ req[c].pc = "done" /\ req[c].status = 404
        /\ req[c].book_id \notin DOMAIN books
        /\ req[c].review.book_id \in DOMAIN books
        /\ reviews = EmptyTable

Updated(c) == req[c].op = "updateBook" /\ req[c].pc = "done"

\* C3: updateBook(id, {title: "X"}) on a stored book succeeds and sets its title.
C3_TitleOnlyUpdateSucceeds ==
    \A c \in Clients :
        (Updated(c) /\ DOMAIN req[c].body = {"title"} /\ BookExists(req[c].book_id))
        => (req[c].status = 200 /\ books[req[c].book_id].title = req[c].body.title)

\* C4: every stored review's book_id is the id of a stored book.
C4_ReviewsReferToBooks ==
    \A i \in DOMAIN reviews : reviews[i].book_id \in DOMAIN books

\* A book that had a review was deleted, and no review of it is left.
C4_DeletedWithReviews ==
    \E c, d \in Clients :
        /\ req[c].op = "deleteBook" /\ req[c].pc = "done" /\ req[c].status = 204
        /\ req[d].op = "createReview" /\ req[d].pc = "done" /\ req[d].status = 200
        /\ req[d].review.book_id = req[c].book_id
        /\ ~BookExists(req[c].book_id)
        /\ \A i \in DOMAIN reviews : reviews[i].book_id # req[c].book_id

\* C5: a deleteBook that answers 204 leaves its id unstored; an id that was
\* handed out and is not stored stays unstored unless a createBook is assigned
\* it; getBook of an unstored id answers 404; deleteBook of an unstored id
\* answers 404 and deletes nothing.
C5_DeletedStaysDeleted ==
    [][/\ \A c \in Clients :
            (req[c].op = "deleteBook" /\ req[c].pc # "done"
                /\ req'[c].pc = "done" /\ req'[c].status = 204)
            => req[c].book_id \notin DOMAIN books'
       /\ \A id \in PathIds :
            (id < nextBookId /\ id \notin DOMAIN books /\ id \in DOMAIN books')
            => \E c \in Clients :
                  /\ req[c].op = "createBook" /\ req[c].pc = "infer"
                  /\ req'[c].pc = "book_refresh" /\ req'[c].db_book = id
       /\ \A c \in Clients :
            (req[c].pc = "idle" /\ req'[c].op = "getBook"
                /\ req'[c].book_id \notin DOMAIN books)
            => req'[c].status = 404
       /\ \A c \in Clients :
            (req[c].pc = "idle" /\ req'[c].op = "deleteBook"
                /\ req'[c].book_id \notin DOMAIN books)
            => /\ req'[c].pc = "done" /\ req'[c].status = 404
               /\ books' = books /\ reviews' = reviews]_vars

\* A deleteBook answered 204 and a getBook of the same id answered 404.
C5_GetAfterDelete ==
    \E c, d \in Clients :
        /\ req[c].op = "deleteBook" /\ req[c].pc = "done" /\ req[c].status = 204
        /\ req[d].op = "getBook" /\ req[d].pc = "done" /\ req[d].status = 404
        /\ req[d].book_id = req[c].book_id
        /\ req[c].book_id \in modified

Created(c) == req[c].op = "createBook" /\ req[c].pc = "done" /\ req[c].status = 200

\* C6: a getBook of the id a createBook stored its record under, answered
\* before any update or delete of that book, returns the fields createBook
\* returned.
C6_RoundTrip ==
    \A c, d \in Clients :
        (/\ Created(c)
         /\ req[d].op = "getBook" /\ req[d].pc = "done" /\ req[d].status = 200
         /\ req[d].book_id = req[c].db_book
         /\ req[c].db_book \notin modified)
        => req[d].out = req[c].out

\* A createBook and a getBook of the book it stored have both answered, the
\* summary being a text of the model.
C6_CreatedThenRead ==
    \E c, d \in Clients :
        /\ Created(c)
        /\ req[d].op = "getBook" /\ req[d].pc = "done" /\ req[d].status = 200
        /\ req[d].book_id = req[c].db_book
        /\ req[c].db_book \notin modified
        /\ req[c].out.summary = "gen"

\* C7 as stated: createBook returns the input's title, author, genre and
\* year_published, and a non-empty summary.
C7_SummaryNonEmpty ==
    \A c \in Clients :
        Created(c) => /\ \A f \in RequiredFields : req[c].out[f] = req[c].body[f]
                      /\ req[c].out.summary # ""

\* C7 as amended: when no other request updated or deleted the new book
\* before createBook re-read it, createBook returns the input's title, author,
\* genre and year_published, and as summary the text the inference call
\* returned, whatever summary the request supplied; the summary is non-empty
\* exactly when that text is.
C7_SummaryIsInference ==
    \A c \in Clients :
        (Created(c) /\ req[c].db_book \notin modified)
        => /\ \A f \in RequiredFields : req[c].out[f] = req[c].body[f]
           /\ req[c].response \in LlmOutputs
           /\ req[c].out.summary = req[c].response
           /\ (req[c].out.summary # "") <=> (req[c].response # "")
           /\ BookOut(books[req[c].db_book]) = req[c].out

\* A createBook whose request supplied a summary returned the model's text.
C7_SuppliedSummaryReplaced ==
    \E c \in Clients :
        /\ Created(c)
        /\ "summary" \in DOMAIN req[c].body
        /\ req[c].body.summary = "mine"
        /\ req[c].out.summary = "gen"
        /\ req[c].db_book \notin modified

\* C8: when the inference call of a createBook fails, the request answers 500
\* and the books table is left as it was.
C8_InferenceFailure ==
    [][\A c \in Clients :
         (req[c].op = "createBook" /\ req[c].pc = "infer"
             /\ FutureRaised(c) /\ req'[c] # req[c])
         => /\ req'[c].pc = "done"
            /\ req'[c].status = 500
            /\ req'[c].db_book = 0
            /\ books' = books
            /\ nextBookId' = nextBookId]_vars

\* A createBook failed in the inference call while another book is stored.
C8_FailedCreate ==
    \E c \in Clients :
        /\ req[c].op = "createBook" /\ req[c].pc = "done"
        /\ req[c].status = 500 /\ req[c].detail = "inference failed"
        /\ books # EmptyTable

\* C9: listReviews answers 404 when the book is not stored and when no review
\* of the book is stored; otherwise it answers 200 with exactly the stored
\* reviews whose book_id is the id of the path.
C9_ListReviews ==
    [][\A c \in Clients :
         /\ (req[c].pc = "idle" /\ req'[c].op = "listReviews"
                /\ req'[c].book_id \notin DOMAIN books)
            => (req'[c].pc = "done" /\ req'[c].status = 404)
         /\ (req[c].op = "listReviews" /\ req[c].pc = "rev_query"
                /\ req'[c] # req[c])
            => LET ids == {i \in DOMAIN reviews : reviews[i].book_id = req[c].book_id}
               IN  /\ req'[c].pc = "done"
                   /\ (~BookExists(req[c].book_id) \/ ids = {}) => req'[c].status = 404
                   /\ ids # {} =>
                        /\ req'[c].status = 200
                        /\ {row[1] : row \in req'[c].rows} = ids
                        /\ \A row \in req'[c].rows : row[2] = reviews[row[1]]]_vars

\* A listReviews found the book and answered 404, the book having no review.
C9_NoReviewsIs404 ==
    \E c \in Clients :
        /\ req[c].op = "listReviews" /\ req[c].pc = "done" /\ req[c].status = 404
        /\ req[c].db_book # 0
        /\ BookExists(req[c].book_id)
        /\ \A i \in DOMAIN reviews : reviews[i].book_id # req[c].book_id


Authenticated(c) == req[c].op = "authenticate" /\ req[c].pc = "done"

\* C11: authenticate answers 200 with the stored identity exactly when a user
\* of that username is stored and the password re-hashed with the salt of the
\* stored hash gives the stored hash; otherwise it answers 401 with the Basic
\* challenge.  The answer is a function of the users table and the
\* credentials, and the step changes no table.
C11_Authenticate ==
    [][\A c \in Clients :
         (req[c].pc = "idle" /\ req'[c].op = "authenticate")
         => LET u == req'[c].username
                p == req'[c].password
                matching == {i \in DOMAIN users :
                               /\ users[i].username = u
                               /\ users[i].hashed_password
                                    = hash_password(p, users[i].hashed_password.salt)}
            IN  /\ req'[c].pc = "done"
                /\ matching # {} =>
                     /\ req'[c].status = 200
                     /\ req'[c].out.id \in matching
                     /\ req'[c].out.username = u
                /\ matching = {} =>
                     /\ req'[c].status = 401
                     /\ req'[c].challenge = "Basic"
                /\ users' = users /\ nextUserId' = nextUserId
                /\ books' = books /\ reviews' = reviews]_vars

\* One stored user was authenticated with the right password and refused with
\* another one.
C11_AcceptedAndRefused ==
    \E c, d \in Clients :
        /\ Authenticated(c) /\ req[c].status = 200
        /\ Authenticated(d) /\ req[d].status = 401
        /\ req[c].username = req[d].username
        /\ req[c].password # req[d].password


Summarized(c) == req[c].op = "generateSummary" /\ req[c].pc = "done"

\* C12: POST /generate-summary answers 500 exactly when the model call
\* raised; when the call returned a text the answer is 200 with that text
\* stripped.
C12_FailureIffModelFailed ==
    \A c \in Clients :
        Summarized(c) =>
            /\ req[c].status = 500 <=> req[c].future.raised
            /\ ~req[c].future.raised =>
                 /\ req[c].status = 200
                 /\ req[c].summary = strip(req[c].future.text)


\* C13: listBooks answers with every stored book whatever skip and limit are,
\* and changes no stored state.
C13_ListIgnoresWindow ==
    [][\A c \in Clients :
         (req[c].pc = "idle" /\ req'[c].op = "listBooks")
         => /\ req'[c].pc = "done" /\ req'[c].status = 200
            /\ req'[c].rows = { <<i, BookOut(books[i])>> : i \in DOMAIN books }
            /\ books' = books /\ nextBookId' = nextBookId
            /\ users' = users /\ reviews' = reviews]_vars

\* Two books are stored and a list request for the window (skip 1, limit 1)
\* was answered with both.
C13_WindowOfOneGetsAll ==
    \E c \in Clients :
        /\ req[c].op = "listBooks" /\ req[c].pc = "done"
        /\ req[c].skip = 1 /\ req[c].limit = 1
        /\ Cardinality(req[c].rows) = 2


\* The error responses of the routes.
ErrorStatus == {400, 401, 404, 500}

\* The row a request has committed and is about to read again.
Committed(r) ==
    IF r.pc = "reg_refresh" THEN {<<"users", r.new_user>>}
    ELSE IF r.pc = "book_refresh" THEN {<<"books", r.db_book>>}
    ELSE IF r.pc = "upd_reread" THEN {<<"books", r.book_id>>}
    ELSE IF r.pc = "rev_refresh" THEN {<<"reviews", r.db_review>>}
    ELSE {}

\* The rows of a table that differ between two of its states.
Differ(name, old, new) ==
    {<<name, i>> : i \in {j \in DOMAIN old \cup DOMAIN new :
                            \/ j \notin DOMAIN old
                            \/ j \notin DOMAIN new
                            \/ old[j] # new[j]}}

Stored == {<<"users", i>> : i \in DOMAIN users}
          \cup {<<"books", i>> : i \in DOMAIN books}
          \cup {<<"reviews", i>> : i \in DOMAIN reviews}

\* C14: a request that ends in an error response leaves nothing written in
\* the users, books and reviews tables, and is not run again.  Step by step,
\* for the client c whose request moves:
\*  - an answered request only returns to idle, and writes nothing;
\*  - a step that changes a table is the single write of its request: it
\*    either answers with a success, or goes on to read the committed row again;
\*  - the step that answers with an error changes no table, and if the
\*    request had committed a row, that row is no longer stored when the
\*    error is answered (another request deleted it before the re-read).
C14_FailedRequestsLeaveNoWrite ==
    [][\A c \in Clients :
         req'[c] # req[c]
         => LET r == req[c]
                r2 == req'[c]
                changed == Differ("users", users, users')
                           \cup Differ("books", books, books')
                           \cup Differ("reviews", reviews, reviews')
                failed == r.pc # "done" /\ r2.pc = "done" /\ r2.status \in ErrorStatus
            IN  /\ r.pc = "done" => (r2 = Idle /\ changed = {})
                /\ changed # {} =>
                     /\ Committed(r) = {}
                     /\ \/ r2.pc = "done" /\ r2.status \in {200, 204}
                        \/ Committed(r2) = changed
                /\ Committed(r) # {} => r2.pc = "done"
                /\ failed => (changed = {} /\ Committed(r) \cap Stored = {})]_vars

\* An update or a review was committed, another request deleted the book, and
\* the first request was answered 500 when it read its row again.
C14_FailedAfterCommit ==
    \E c, d \in Clients :
        /\ req[c].pc = "done" /\ req[c].status = 500
        /\ req[c].op \in {"updateBook", "createReview"}
        /\ req[d].pc = "done" /\ req[d].op = "deleteBook" /\ req[d].status = 204


\* C16: a review createReview(bookId, fields) stored successfully has book_id
\* equal to the bookId of the path, whatever book_id the body carries, so
\* that it is one of the reviews of the book the handler looked up.
C16_StoredUnderPathId ==
    \A c \in Clients :
        ( /\ req[c].op = "createReview" /\ req[c].pc = "done"
          /\ req[c].status = 200
          /\ req[c].db_review \in DOMAIN reviews )
        => /\ reviews[req[c].db_review].book_id = req[c].book_id
           /\ \E row \in ReviewsOfBook(req[c].book_id) : row[1] = req[c].db_review


\* The request of c is suspended on work it submitted to the executor.
AwaitsInference(c) == req[c].pc \in {"infer", "summarize", "recommend"}

\* The request of c is a store-only request in flight.
AwaitsStore(c) ==
    /\ req[c].op \in {"getBook", "listBooks", "updateBook", "deleteBook"}
    /\ req[c].pc # "done"

\* C15: when every model call terminates, every request that submitted work
\* to the executor is answered, also when more are in flight than there are
\* workers: the submission is in the queue or on a worker until then, never
\* dropped; and every store-only request in flight is answered, whatever
\* waits on inference.
C15_InferenceRequestsAnswered ==
    /\ [](\A c \in Clients :
            AwaitsInference(c) =>
                ( \/ \E i \in 1 .. Len(pool.queue) : pool.queue[i] = c
                  \/ c \in pool.running
                  \/ req[c].future.set ))
    /\ \A c \in Clients :
         (AwaitsInference(c) \/ AwaitsStore(c)) ~> (req[c].pc = "done")

\* Every worker is busy and a further submission waits in the queue.
C15_Saturated ==
    /\ Cardinality(pool.running) = pool.workers
    /\ pool.queue # <<>>
    /\ \A c \in Clients : AwaitsInference(c)

=============================================================================
